---- MODULE Spec2Model ----
(***************************************************************************)
(* Resilient data-access core of BiLL2-Evo (fantasy-tools-mcp):            *)
(*   - RetryExecutor   helpers/retry_utils.py  (retry_with_backoff)        *)
(*   - ResolutionCache tools/fantasy/info.py   (_resolve_player_ids), and   *)
(*     the shared cache its tests import (_player_cache, _player_cache_lock)*)
(*   - QueryBuilder    helpers/query_utils.py  (build_player_stats_query)  *)
(* Delays are integers in milliseconds; the backoff multiplier is a        *)
(* rational with denominator 2 (multiplier2 = 2 * multiplier).             *)
(***************************************************************************)
EXTENDS Integers, Sequences, FiniteSets, TLC

VARIABLES policy, sync, async, seen, backend, res, history,
          player_cache, player_cache_lock, now, callers, qb, sn, tasks

vars == <<policy, sync, async, seen, backend, res, history,
          player_cache, player_cache_lock, now, callers, qb, sn, tasks>>

resolveVars == <<backend, res, history>>

cacheVars == <<player_cache, player_cache_lock, now, callers>>

(***************************************************************************)
(* Bounds of the model.                                                    *)
(***************************************************************************)
MaxAttempts == 4

MaxIds == 3

BatchCap == 2

MaxCallIds == 1

MaxClock == 3

MaxRuns == 2

MaxNameLen == 4

MaxTaskIds == 2

(***************************************************************************)
(* Errors the wrapped call can raise.  An error is a record: its Python    *)
(* type, whether it carries a response, the response's status code, the    *)
(* response's Retry-After header ("" when the header is absent) and the    *)
(* number of the attempt that raised it (its identity).                    *)
(***************************************************************************)
StatusCodes == {404, 429, 499, 500, 503}

RetryAfterHeaders == {"", "5", "Wed, 21 Oct 2015 07:28:00 GMT"}

Err(t, hr, sc, ra) ==
  [type |-> t, has_response |-> hr, status_code |-> sc, retry_after |-> ra, id |-> 0]

RequestsErrors ==
  {Err("requests.ConnectionError", FALSE, 0, ""),
   Err("requests.Timeout", FALSE, 0, ""),
   Err("requests.HTTPError", FALSE, 0, "")}
  \cup {Err("requests.HTTPError", TRUE, sc, ra) : sc \in StatusCodes, ra \in RetryAfterHeaders}

AiohttpErrors ==
  {Err("aiohttp.ClientConnectionError", FALSE, 0, ""),
   Err("aiohttp.ClientError", FALSE, 0, ""),
   Err("asyncio.TimeoutError", FALSE, 0, "")}
  \cup {Err("aiohttp.ClientResponseError", TRUE, sc, "") : sc \in StatusCodes}

OtherErrors == {Err("ValueError", FALSE, 0, "")}

Errors == RequestsErrors \cup AiohttpErrors \cup OtherErrors

\* BaseApi._call wraps requests.get: what the blocking call raises.
BlockingErrors == RequestsErrors \cup OtherErrors

NoError == Err("None", FALSE, 0, "")

\* What one attempt of the wrapped call does: return a value or raise.
OutcomesOf(errs) == {[ok |-> TRUE, err |-> NoError]} \cup {[ok |-> FALSE, err |-> e] : e \in errs}

NoOutcome == [ok |-> FALSE, value |-> 0, err |-> NoError]

\* The outcome of attempt n: the value returned, or the error raised, by that attempt.
Stamp(o, n) ==
  [ok |-> o.ok, value |-> IF o.ok THEN n ELSE 0, err |-> IF o.ok THEN NoError ELSE [o.err EXCEPT !.id = n]]

(***************************************************************************)
(* RetryPolicy: the decorator's arguments (or their environment defaults). *)
(* The policies are those of the data model: max_attempts >= 1 and         *)
(* initial_delay <= max_delay.                                             *)
(***************************************************************************)
Policies ==
  {p \in [max_attempts : 1..MaxAttempts,
          initial_delay : {200, 1000},
          max_delay : {500, 4000},
          multiplier2 : {1, 2, 4, 6}] : p.initial_delay <= p.max_delay}

RECURSIVE Pow(_, _)
Pow(b, e) == IF e = 0 THEN 1 ELSE b * Pow(b, e - 1)

Min(a, b) == IF a <= b THEN a ELSE b

Max(a, b) == IF a >= b THEN a ELSE b

(***************************************************************************)
(* is_retryable_http_error: requests' ConnectionError and Timeout are      *)
(* retryable; a requests HTTPError with a response is retryable iff its    *)
(* status is >= 500 or 429; everything else is not.                        *)
(***************************************************************************)
IsRetryableAlways(exception) == TRUE

IsRetryableNo429(exception) ==
  \/ exception.type \in {"requests.ConnectionError", "requests.Timeout"}
  \/ /\ exception.type = "requests.HTTPError"
     /\ exception.has_response
     /\ exception.status_code >= 500

is_retryable_http_error(exception) ==
  IF exception.type \in {"requests.ConnectionError", "requests.Timeout"}
  THEN TRUE
  ELSE IF exception.type = "requests.HTTPError" /\ exception.has_response
       THEN exception.status_code >= 500 \/ exception.status_code = 429
       ELSE FALSE

(***************************************************************************)
(* float(retry_after): the header values of the model that parse as a      *)
(* plain number, and their value in milliseconds.                          *)
(***************************************************************************)
FloatParses(s) == s \in {"5"}

FloatMs(s) == IF s = "5" THEN 5000 ELSE 0

NoDelay == [present |-> FALSE, ms |-> 0]

(***************************************************************************)
(* get_retry_after_delay: the Retry-After value of a 429 response when it  *)
(* parses as a number, None otherwise.                                     *)
(***************************************************************************)
get_retry_after_delay(exception) ==
  IF /\ exception.type = "requests.HTTPError"
     /\ exception.has_response
     /\ exception.status_code = 429
     /\ exception.retry_after # ""
     /\ FloatParses(exception.retry_after)
  THEN [present |-> TRUE, ms |-> FloatMs(exception.retry_after)]
  ELSE NoDelay

(***************************************************************************)
(* tenacity's stop_after_attempt(_max_attempts).                           *)
(***************************************************************************)
StopOneLate(p, attempt_number) == attempt_number >= p.max_attempts + 1

stop_after_attempt(p, attempt_number) == attempt_number >= p.max_attempts

(***************************************************************************)
(* tenacity's wait_exponential(multiplier=initial, min=initial, max=max,   *)
(* exp_base=multiplier):                                                   *)
(*   max(max(0, min), min(multiplier * exp_base^(attempt_number-1), max))  *)
(***************************************************************************)
WaitNoCap(p, attempt_number) ==
  Max(p.initial_delay,
      (p.initial_delay * Pow(p.multiplier2, attempt_number - 1)) \div Pow(2, attempt_number - 1))

wait_exponential(p, attempt_number) ==
  Max(Max(0, p.initial_delay),
      Min((p.initial_delay * Pow(p.multiplier2, attempt_number - 1)) \div Pow(2, attempt_number - 1),
          p.max_delay))

(***************************************************************************)
(* reraise=True: when the attempts are used up, the error raised to the    *)
(* caller is the last attempt's own exception.                             *)
(***************************************************************************)
ReraiseWrapped(outcome) == Err("tenacity.RetryError", FALSE, 0, "")

reraise(outcome) == outcome.err

(***************************************************************************)
(* The blocking executor: one invocation of the wrapper of                 *)
(* retry_with_backoff.  pc: idle -> attempt -> (sleep -> attempt)* ->      *)
(* returned | raised.                                                      *)
(***************************************************************************)
IdleExecutor ==
  [pc |-> "idle", attempt_number |-> 0, calls |-> 0, outcome |-> NoOutcome,
   upcoming_sleep |-> 0, sleeps |-> <<>>, propagated |-> NoError]

\* wrapper(): tenacity starts a RetryCallState with attempt_number = 1.
SyncBegin(st) == [st EXCEPT !.pc = "attempt", !.attempt_number = 1]

\* One attempt (the call of func) and tenacity's decision on its outcome.
SyncAttempt(p, st, o) ==
  LET n == st.calls + 1
      out == Stamp(o, n)
      called == [st EXCEPT !.calls = n, !.outcome = out]
  IN IF out.ok
     THEN [called EXCEPT !.pc = "returned"]
     ELSE IF ~is_retryable_http_error(out.err)
          THEN [called EXCEPT !.pc = "raised", !.propagated = out.err]
          ELSE IF stop_after_attempt(p, st.attempt_number)
               THEN [called EXCEPT !.pc = "raised", !.propagated = reraise(out)]
               ELSE [called EXCEPT !.pc = "sleep",
                                   !.upcoming_sleep = wait_exponential(p, st.attempt_number)]

SyncSleepSkipAttempt(st) ==
  [st EXCEPT !.pc = "attempt", !.attempt_number = st.attempt_number + 2,
             !.sleeps = Append(st.sleeps, st.upcoming_sleep), !.upcoming_sleep = 0]

\* The backoff wait, then the next attempt (prepare_for_next_attempt).
SyncSleep(st) ==
  [st EXCEPT !.pc = "attempt", !.attempt_number = st.attempt_number + 1,
             !.sleeps = Append(st.sleeps, st.upcoming_sleep), !.upcoming_sleep = 0]

Terminal(st) == st.pc \in {"returned", "raised"}

(***************************************************************************)
(* Specification SpecRetry: one invocation of a function decorated with    *)
(* retry_with_backoff under each policy and each sequence of outcomes.     *)
(***************************************************************************)
(* The classification of section 4.2, by kind of failure: what the         *)
(* observer of an invocation counts as a retryable failure.                *)
(***************************************************************************)
ConnectionOrTimeout(e) == e.type \in {"requests.ConnectionError", "requests.Timeout"}

CarriesStatus(e) == e.type = "requests.HTTPError" /\ e.has_response

Retryable(e) ==
  \/ ConnectionOrTimeout(e)
  \/ CarriesStatus(e) /\ (e.status_code >= 500 \/ e.status_code = 429)

\* What has been observed of the invocation so far: how many attempts failed
\* with a retryable error, and how many with a fatal one.
NothingSeen == [retryable_failures |-> 0, fatal_failures |-> 0]

Observe(s, o) ==
  IF o.ok THEN s
  ELSE IF Retryable(o.err)
       THEN [s EXCEPT !.retryable_failures = s.retryable_failures + 1]
       ELSE [s EXCEPT !.fatal_failures = s.fatal_failures + 1]

(***************************************************************************)
(* Specification SpecRetry: one invocation of a function decorated with    *)
(* retry_with_backoff under each policy and each sequence of outcomes.     *)
(***************************************************************************)
NoBackend == {}

NoException == ""

IdleResolve ==
  [pc |-> "idle", player_ids |-> <<>>, numeric_ids |-> <<>>, calls |-> <<>>, output |-> <<>>,
   exception |-> NoException]

NoHistory == [ids |-> {}, records |-> <<>>, repeat |-> FALSE, same |-> TRUE, failed |-> FALSE]

\* The shared cache before any call: no entry, the lock free, no caller.
EmptyCache == <<>>

NoLock == ""

NoCallers == <<>>

CacheIdle ==
  /\ player_cache = EmptyCache
  /\ player_cache_lock = NoLock
  /\ now = 0
  /\ callers = NoCallers

\* No call of build_player_stats_query; unidecode tells whether the optional
\* unidecode package is installed.
None == <<>>

NoQuery ==
  [pc |-> "idle", unidecode |-> FALSE, kwargs |-> None, request |-> None, returned |-> None,
   exception |-> None, failure |-> None, objects |-> None, runs |-> 0, first |-> None]

\* No call of sanitize_name.
NoName == [pc |-> "idle", unidecode |-> FALSE, name |-> None, once |-> None, twice |-> None]

\* No thread in _resolve_player_ids.
NoTasks == <<>>

InitRetry ==
  /\ policy \in Policies
  /\ sync = IdleExecutor
  /\ async = IdleExecutor
  /\ seen = NothingSeen
  /\ backend = NoBackend
  /\ res = IdleResolve
  /\ history = NoHistory
  /\ CacheIdle
  /\ qb = NoQuery
  /\ sn = NoName
  /\ tasks = NoTasks

RetryCall ==
  /\ sync.pc = "idle"
  /\ sync' = SyncBegin(sync)
  /\ UNCHANGED <<policy, async, seen, resolveVars, cacheVars, qb, sn, tasks>>

RetryAttempt ==
  /\ sync.pc = "attempt"
  /\ \E o \in OutcomesOf(BlockingErrors) :
       /\ sync' = SyncAttempt(policy, sync, o)
       /\ seen' = Observe(seen, o)
  /\ UNCHANGED <<policy, async, resolveVars, cacheVars, qb, sn, tasks>>

RetrySleep ==
  /\ sync.pc = "sleep"
  /\ sync' = SyncSleep(sync)
  /\ UNCHANGED <<policy, async, seen, resolveVars, cacheVars, qb, sn, tasks>>

NextRetry == RetryCall \/ RetryAttempt \/ RetrySleep

SpecRetry == InitRetry /\ [][NextRetry]_vars

(***************************************************************************)
(* Properties of the blocking executor (SpecRetry).                        *)
(***************************************************************************)
Failed(st) == st.calls >= 1 /\ ~st.outcome.ok

\* C1: a call that fails with a retryable error on its first k attempts
\* (0 <= k < max_attempts) and then succeeds is invoked exactly k+1 times and
\* the invocation returns the value of attempt k+1, raising nothing; as long
\* as only k < max_attempts retryable failures happened the executor has not
\* given up.
C1_AttemptCount ==
  (seen.fatal_failures = 0 /\ seen.retryable_failures < policy.max_attempts) =>
    /\ sync.outcome.ok =>
         /\ sync.pc = "returned"
         /\ sync.calls = seen.retryable_failures + 1
         /\ sync.outcome.value = sync.calls
         /\ sync.propagated = NoError
    /\ ~sync.outcome.ok =>
         /\ sync.pc \in {"idle", "attempt", "sleep"}
         /\ sync.calls = seen.retryable_failures

C1_Witness ==
  /\ sync.pc = "returned"
  /\ seen.retryable_failures = 2
  /\ sync.calls = 3
  /\ sync.outcome.value = 3

\* C2: when all max_attempts attempts fail with a retryable error the call
\* has been invoked exactly max_attempts times and the caller receives the
\* error raised by the last attempt itself: no RetryError wrapper, no earlier
\* attempt's error.  The call is never invoked more than max_attempts times.
C2_Exhaustion ==
  /\ sync.calls <= policy.max_attempts
  /\ (seen.fatal_failures = 0 /\ seen.retryable_failures = policy.max_attempts) =>
       /\ sync.pc = "raised"
       /\ sync.calls = policy.max_attempts
       /\ ~sync.outcome.ok
       /\ sync.propagated = sync.outcome.err
       /\ sync.propagated.id = policy.max_attempts
       /\ sync.propagated.type # "tenacity.RetryError"

C2_Witness ==
  /\ sync.pc = "raised"
  /\ policy.max_attempts = 3
  /\ seen.retryable_failures = 3
  /\ seen.fatal_failures = 0
  /\ sync.propagated.id = 3

\* C3: when attempt n fails with a non-retryable error the invocation ends
\* there: the call has been invoked exactly n times, no backoff wait follows
\* that attempt, and that attempt's error is what the caller receives.
C3_FatalError ==
  seen.fatal_failures >= 1 =>
    /\ seen.fatal_failures = 1
    /\ sync.pc = "raised"
    /\ sync.calls = seen.retryable_failures + 1
    /\ sync.propagated = sync.outcome.err
    /\ sync.propagated.id = sync.calls
    /\ Len(sync.sleeps) = sync.calls - 1
    /\ sync.upcoming_sleep = 0

C3_Witness ==
  /\ sync.pc = "raised"
  /\ seen.fatal_failures = 1
  /\ sync.calls = 1
  /\ policy.max_attempts = 3
  /\ sync.propagated.status_code = 404
  /\ sync.sleeps = <<>>

\* clamp(x, lo, hi) and initial_delay * multiplier^(k-1), in milliseconds.
Clamp(x, lo, hi) == IF x < lo THEN lo ELSE IF x > hi THEN hi ELSE x

Grown(p, k) == (p.initial_delay * Pow(p.multiplier2, k - 1)) \div Pow(2, k - 1)

Schedule(p, k) == Clamp(Grown(p, k), p.initial_delay, p.max_delay)

\* C4: the wait between failed attempt k and attempt k+1 is
\* clamp(initial_delay * multiplier^(k-1), initial_delay, max_delay): never
\* below initial_delay, never above max_delay; policy (3, 1s, 4s, x2) waits
\* 1s then 2s and policy (4, 200ms, 500ms, x3) waits 200ms, 500ms, 500ms.
C4_BackoffSchedule ==
  /\ \A k \in 1..Len(sync.sleeps) :
       /\ sync.sleeps[k] = Schedule(policy, k)
       /\ sync.sleeps[k] >= policy.initial_delay
       /\ sync.sleeps[k] <= policy.max_delay
  /\ sync.pc = "sleep" => sync.upcoming_sleep = Schedule(policy, sync.calls)
  /\ (policy = [max_attempts |-> 3, initial_delay |-> 1000, max_delay |-> 4000, multiplier2 |-> 4]
        /\ Len(sync.sleeps) = 2) => sync.sleeps = <<1000, 2000>>
  /\ (policy = [max_attempts |-> 4, initial_delay |-> 200, max_delay |-> 500, multiplier2 |-> 6]
        /\ Len(sync.sleeps) = 3) => sync.sleeps = <<200, 500, 500>>

C4_Witness ==
  /\ policy = [max_attempts |-> 4, initial_delay |-> 200, max_delay |-> 500, multiplier2 |-> 6]
  /\ sync.sleeps = <<200, 500, 500>>

C6_WaitHintHonoured ==
  (sync.pc = "sleep" /\ Retryable(sync.outcome.err)
     /\ sync.outcome.err.status_code = 429
     /\ sync.outcome.err.retry_after # "" /\ FloatParses(sync.outcome.err.retry_after)) =>
    sync.upcoming_sleep = FloatMs(sync.outcome.err.retry_after)

(***************************************************************************)
(* The suspendable executor, async_retry_with_backoff (used by             *)
(* BaseApi._call_async), as section 4.2 describes the executor: the same   *)
(* state machine, classification by kind of failure, the clamped backoff,  *)
(* a parseable wait hint preferred over the computed delay, and the last   *)
(* attempt's error propagated on exhaustion.                               *)
(***************************************************************************)
AsyncRetryable(e) ==
  \/ e.type \in {"requests.ConnectionError", "requests.Timeout",
                 "aiohttp.ClientConnectionError", "aiohttp.ClientError",
                 "asyncio.TimeoutError"}
  \/ /\ e.type \in {"requests.HTTPError", "aiohttp.ClientResponseError"}
     /\ e.has_response
     /\ (e.status_code >= 500 \/ e.status_code = 429)

AsyncWait(p, attempt_number, e) ==
  IF e.has_response /\ e.retry_after # "" /\ FloatParses(e.retry_after)
  THEN FloatMs(e.retry_after)
  ELSE Clamp(Grown(p, attempt_number), p.initial_delay, p.max_delay)

AsyncBegin(st) == [st EXCEPT !.pc = "attempt", !.attempt_number = 1]

AsyncAttempt(p, st, o) ==
  LET n == st.calls + 1
      out == Stamp(o, n)
      called == [st EXCEPT !.calls = n, !.outcome = out]
  IN IF out.ok
     THEN [called EXCEPT !.pc = "returned"]
     ELSE IF ~AsyncRetryable(out.err) \/ st.attempt_number >= p.max_attempts
          THEN [called EXCEPT !.pc = "raised", !.propagated = out.err]
          ELSE [called EXCEPT !.pc = "sleep",
                              !.upcoming_sleep = AsyncWait(p, st.attempt_number, out.err)]

AsyncSleep(st) ==
  [st EXCEPT !.pc = "attempt", !.attempt_number = st.attempt_number + 1,
             !.sleeps = Append(st.sleeps, st.upcoming_sleep), !.upcoming_sleep = 0]

(***************************************************************************)
(* Specification SpecModes: the blocking and the suspendable form invoked  *)
(* under the same policy and fed the same sequence of attempt outcomes     *)
(* (attempt n of either form gets the n-th outcome).                       *)
(***************************************************************************)
ModesCall ==
  /\ sync.pc = "idle" /\ async.pc = "idle"
  /\ sync' = SyncBegin(sync)
  /\ async' = AsyncBegin(async)
  /\ UNCHANGED <<policy, seen, resolveVars, cacheVars, qb, sn, tasks>>

ModesAttempt ==
  /\ sync.pc \in {"attempt", "returned", "raised"}
  /\ async.pc \in {"attempt", "returned", "raised"}
  /\ sync.pc = "attempt" \/ async.pc = "attempt"
  /\ \E o \in OutcomesOf(Errors) :
       /\ sync' = IF sync.pc = "attempt" THEN SyncAttempt(policy, sync, o) ELSE sync
       /\ async' = IF async.pc = "attempt" THEN AsyncAttempt(policy, async, o) ELSE async
       /\ seen' = Observe(seen, o)
  /\ UNCHANGED <<policy, resolveVars, cacheVars, qb, sn, tasks>>

ModesSleep ==
  /\ sync.pc = "sleep" \/ async.pc = "sleep"
  /\ sync' = IF sync.pc = "sleep" THEN SyncSleep(sync) ELSE sync
  /\ async' = IF async.pc = "sleep" THEN AsyncSleep(async) ELSE async
  /\ UNCHANGED <<policy, seen, resolveVars, cacheVars, qb, sn, tasks>>

NextModes == ModesCall \/ ModesAttempt \/ ModesSleep

SpecModes == InitRetry /\ [][NextModes]_vars

\* C7: for the same policy and the same sequence of attempt outcomes the
\* blocking and the suspendable form make the same number of attempts, wait
\* the same delays and end with the same result or the same propagated error.
C7_ModeEquivalence ==
  (Terminal(sync) /\ Terminal(async)) =>
    /\ sync.calls = async.calls
    /\ sync.sleeps = async.sleeps
    /\ sync.pc = async.pc
    /\ sync.outcome = async.outcome
    /\ sync.propagated = async.propagated

(***************************************************************************)
(* _resolve_player_ids (tools/fantasy/info.py).  A Python string is a      *)
(* sequence of characters; ids are ASCII.                                  *)
(***************************************************************************)
DigitChars == <<"0", "1", "2", "3", "4", "5", "6", "7", "8", "9">>

Digits == {DigitChars[i] : i \in 1..Len(DigitChars)}

DigitValue(c) == (CHOOSE i \in 1..Len(DigitChars) : DigitChars[i] = c) - 1

\* str.isdigit(): non-empty and every character a digit.
isdigit(pid) == Len(pid) > 0 /\ \A i \in 1..Len(pid) : pid[i] \in Digits

\* int(pid) of a string of digits.
RECURSIVE int(_)
int(pid) ==
  IF pid = <<>> THEN 0
  ELSE 10 * int(SubSeq(pid, 1, Len(pid) - 1)) + DigitValue(pid[Len(pid)])

\* str(n) of a non-negative integer.
RECURSIVE str(_)
str(n) ==
  IF n < 10 THEN <<DigitChars[n + 1]>>
  ELSE str(n \div 10) \o <<DigitChars[(n % 10) + 1]>>

\* The ids callers pass: numeric ids, one with a leading zero, a team code.
IdUniverse ==
  {<<"7">>, <<"0", "7">>, <<"4", "2">>, <<"9">>, <<"K", "C">>}

InputLists == UNION {[1..n -> IdUniverse] : n \in 0..MaxIds}

\* Rows of vw_nfl_players_with_dynasty_ids: sleeper_id, display_name,
\* latest_team, position.
Row(id, name, team, position) ==
  [sleeper_id |-> id, display_name |-> name, latest_team |-> team, position |-> position]

PlayerRows ==
  {Row(7, <<"A">>, <<"K", "C">>, <<"Q", "B">>),
   Row(42, <<"B">>, <<"S", "F">>, <<"R", "B">>)}

Backends == {PlayerRows, PlayerRows \cup {Row(9, <<"C">>, <<"S", "F">>, <<"T", "E">>)}}

\* .in_("sleeper_id", request).execute(): the matching rows, in any order.
Matching(table, request) ==
  {row \in table : \E i \in 1..Len(request) : request[i] = row.sleeper_id}

Orders(S) ==
  {rs \in [1..Cardinality(S) -> S] : \A i, j \in 1..Cardinality(S) : rs[i] = rs[j] => i = j}

\* [int(pid) for pid in numeric_ids]
IntList(numeric_ids) == [i \in 1..Len(numeric_ids) |-> int(numeric_ids[i])]

RowRecord(row) ==
  [name |-> row.display_name, position |-> row.position, team |-> row.latest_team]

Put(lookup, key, value) ==
  [k \in DOMAIN lookup \cup {key} |-> IF k = key THEN value ELSE lookup[k]]

\* for row in response.data: lookup[str(int(row["sleeper_id"]))] = {...}
RECURSIVE BuildLookup(_, _)
BuildLookup(rows, lookup) ==
  IF rows = <<>> THEN lookup
  ELSE BuildLookup(Tail(rows), Put(lookup, str(Head(rows).sleeper_id), RowRecord(Head(rows))))

EmptyLookup == [k \in {} |-> <<>>]

FallbackNoCode(pid) == [name |-> pid, position |-> <<>>, team |-> <<>>]

\* {"name": pid, "position": "DEF" if not pid.isdigit() else "", "team": pid if
\* not pid.isdigit() else ""}
Fallback(pid) ==
  [name |-> pid,
   position |-> IF ~isdigit(pid) THEN <<"D", "E", "F">> ELSE <<>>,
   team |-> IF ~isdigit(pid) THEN pid ELSE <<>>]

RECURSIVE Deduplicate(_)
Deduplicate(ids) ==
  IF ids = <<>> THEN <<>>
  ELSE LET rest == Deduplicate(SubSeq(ids, 1, Len(ids) - 1))
           last == ids[Len(ids)]
       IN IF \E i \in 1..Len(rest) : rest[i] = last THEN rest ELSE Append(rest, last)

ReturnDeduplicated(player_ids, lookup) ==
  LET ids == Deduplicate(player_ids)
  IN [i \in 1..Len(ids) |-> IF ids[i] \in DOMAIN lookup THEN lookup[ids[i]] ELSE Fallback(ids[i])]

\* return [lookup.get(str(pid), fallback) for pid in player_ids]
ResolveReturn(player_ids, lookup) ==
  [i \in 1..Len(player_ids) |->
     IF player_ids[i] \in DOMAIN lookup THEN lookup[player_ids[i]] ELSE Fallback(player_ids[i])]

ResolveEnterAlwaysQuery(player_ids) ==
  LET numeric_ids == SelectSeq(player_ids, isdigit)
  IN [IdleResolve EXCEPT !.player_ids = player_ids, !.pc = "query", !.numeric_ids = numeric_ids,
                         !.calls = <<IntList(numeric_ids)>>]

\* The call up to its return (no numeric id) or to the backend query.
ResolveEnter(player_ids) ==
  LET numeric_ids == SelectSeq(player_ids, isdigit)
      entered == [IdleResolve EXCEPT !.player_ids = player_ids]
  IN IF player_ids = <<>>
     THEN [entered EXCEPT !.pc = "done"]
     ELSE IF numeric_ids = <<>>
          THEN [entered EXCEPT !.pc = "done", !.output = ResolveReturn(player_ids, EmptyLookup)]
          ELSE [entered EXCEPT !.pc = "query", !.numeric_ids = numeric_ids,
                               !.calls = <<IntList(numeric_ids)>>]

\* The response of the query, the lookup built from it, and the return.
ResolveFinish(st, rows) ==
  [st EXCEPT !.pc = "done", !.output = ResolveReturn(st.player_ids, BuildLookup(rows, EmptyLookup))]

\* The exceptions .execute() raises: the backend's error response, or a
\* failure of the transport.
BackendExceptions == {"postgrest.APIError", "httpx.ConnectError"}

ResolveSwallow(st, e) == ResolveFinish(st, <<>>)

\* .execute() raises inside _resolve_player_ids, which has no handler: the
\* exception leaves the call, nothing is returned.
ResolveRaise(st, e) == [st EXCEPT !.pc = "raised", !.exception = e]

(***************************************************************************)
(* What is remembered of the calls: the id set of the last completed call  *)
(* when it was a non-empty set of numeric ids all found in the backend,    *)
(* whether the current call repeats that id set, whether it returned the   *)
(* same records, and whether its backend query failed.                     *)
(***************************************************************************)
IdSet(ids) == {ids[i] : i \in 1..Len(ids)}

Found(table, pid) == isdigit(pid) /\ \E row \in table : row.sleeper_id = int(pid)

AllFound(table, ids) == ids # <<>> /\ \A i \in 1..Len(ids) : Found(table, ids[i])

Entering(h, ids) ==
  [h EXCEPT !.repeat = (h.ids # {} /\ IdSet(ids) = h.ids), !.same = TRUE, !.failed = FALSE]

Failing(h) == [h EXCEPT !.ids = {}, !.records = <<>>, !.failed = TRUE]

Completed(h, table, st) ==
  LET keep == AllFound(table, st.player_ids) /\ Len(st.output) = Len(st.player_ids)
  IN [h EXCEPT
        !.ids = IF keep THEN IdSet(st.player_ids) ELSE {},
        !.records = IF keep
                    THEN [pid \in IdSet(st.player_ids) |->
                            st.output[CHOOSE i \in 1..Len(st.player_ids) : st.player_ids[i] = pid]]
                    ELSE <<>>,
        !.same = h.repeat =>
                   /\ Len(st.output) = Len(st.player_ids)
                   /\ \A i \in 1..Len(st.player_ids) : st.output[i] = h.records[st.player_ids[i]]]

(***************************************************************************)
(* Specification SpecResolve: resolve calls, one after another, against a  *)
(* backend table.                                                          *)
(***************************************************************************)
DefaultPolicy ==
  [max_attempts |-> 3, initial_delay |-> 1000, max_delay |-> 4000, multiplier2 |-> 4]

InitResolve ==
  /\ policy = DefaultPolicy
  /\ sync = IdleExecutor
  /\ async = IdleExecutor
  /\ seen = NothingSeen
  /\ backend \in Backends
  /\ res = IdleResolve
  /\ history = NoHistory
  /\ CacheIdle
  /\ qb = NoQuery
  /\ sn = NoName
  /\ tasks = NoTasks

ResolveCall ==
  /\ res.pc \in {"idle", "done", "raised"}
  /\ \E ids \in InputLists :
       /\ res' = ResolveEnter(ids)
       /\ history' = IF res'.pc = "done"
                     THEN Completed(Entering(history, ids), backend, res')
                     ELSE Entering(history, ids)
  /\ UNCHANGED <<policy, sync, async, seen, backend, cacheVars, qb, sn, tasks>>

BackendRespond ==
  /\ res.pc = "query"
  /\ \E rows \in Orders(Matching(backend, res.calls[Len(res.calls)])) :
       res' = ResolveFinish(res, rows)
  /\ history' = Completed(history, backend, res')
  /\ UNCHANGED <<policy, sync, async, seen, backend, cacheVars, qb, sn, tasks>>

BackendFail ==
  /\ res.pc = "query"
  /\ \E e \in BackendExceptions :
       /\ res' = ResolveRaise(res, e)
       /\ history' = Failing(history)
  /\ UNCHANGED <<policy, sync, async, seen, backend, cacheVars, qb, sn, tasks>>

NextResolve == ResolveCall \/ BackendRespond \/ BackendFail

SpecResolve == InitResolve /\ [][NextResolve]_vars

(***************************************************************************)
(* Properties of resolve (SpecResolve).                                    *)
(***************************************************************************)
NotFoundRecord(pid) == [name |-> pid, position |-> <<>>, team |-> <<>>]

CodeRecord(pid) == [name |-> pid, position |-> <<"D", "E", "F">>, team |-> pid]

\* The records that may stand for an id: a non-numeric code's own record; for
\* a numeric id the record of the backend row with that identifier, or the
\* not-found record naming the id.
RecordsFor(table, pid) ==
  IF isdigit(pid)
  THEN {NotFoundRecord(pid)} \cup {RowRecord(row) : row \in {r \in table : r.sleeper_id = int(pid)}}
  ELSE {CodeRecord(pid)}

\* A numeric id: a non-empty string of the digits 0-9.
Numeric(pid) ==
  /\ pid # <<>>
  /\ \A i \in 1..Len(pid) : pid[i] \in {"0", "1", "2", "3", "4", "5", "6", "7", "8", "9"}

Canonical(pid) == isdigit(pid) /\ str(int(pid)) = pid

\* C8: for every input list, len(output) = len(ids), output[i] is the record
\* for ids[i] (for an id found in the backend, the row with that id, whatever
\* the order of the rows returned), and equal ids get equal records.
C8_OutputShape ==
  res.pc = "done" =>
    /\ Len(res.output) = Len(res.player_ids)
    /\ \A i \in 1..Len(res.player_ids) :
         /\ res.output[i] \in RecordsFor(backend, res.player_ids[i])
         /\ (Canonical(res.player_ids[i]) /\ Found(backend, res.player_ids[i])) =>
              res.output[i] # NotFoundRecord(res.player_ids[i])
    /\ \A i, j \in 1..Len(res.player_ids) :
         res.player_ids[i] = res.player_ids[j] => res.output[i] = res.output[j]

C8_Witness ==
  /\ res.pc = "done"
  /\ res.player_ids = <<<<"4", "2">>, <<"K", "C">>, <<"4", "2">>>>
  /\ Len(res.calls) = 1
  /\ res.output[1] = [name |-> <<"B">>, position |-> <<"R", "B">>, team |-> <<"S", "F">>]
  /\ res.output[3] = res.output[1]

\* C9: a second resolve of the same set of numeric ids, all found in the
\* backend by a completed resolve call, issues no backend lookup call and
\* returns the same records.
C9_CacheHit ==
  history.repeat => (Len(res.calls) = 0 /\ history.same)

Ceil(n, d) == (n + d - 1) \div d

BatchesWith(calls, id) ==
  {b \in 1..Len(calls) : \E k \in 1..Len(calls[b]) : calls[b][k] = id}

\* C10: when n distinct numeric ids must be looked up with batch cap B,
\* resolve issues exactly ceil(n/B) backend calls, none carries more than B
\* ids, and every id to look up appears in exactly one call (stated for
\* inputs whose numeric ids are pairwise distinct).
C10_Batching ==
  LET todo == {int(pid) : pid \in {q \in IdSet(res.player_ids) : isdigit(q)}}
  IN (res.pc \in {"query", "done"} /\ Cardinality(todo) = Len(SelectSeq(res.player_ids, isdigit))) =>
       /\ Len(res.calls) = Ceil(Cardinality(todo), BatchCap)
       /\ \A b \in 1..Len(res.calls) : Len(res.calls[b]) <= BatchCap
       /\ \A id \in todo : Cardinality(BatchesWith(res.calls, id)) = 1

\* C11: no backend lookup call carries anything but the integer value of a
\* numeric id of the input, and a resolve call whose input has no numeric id
\* (the empty list, or only non-numeric codes) issues no backend call.
C11_BackendIsolation ==
  /\ \A b \in 1..Len(res.calls) : \A k \in 1..Len(res.calls[b]) :
       \E i \in 1..Len(res.player_ids) :
          Numeric(res.player_ids[i]) /\ int(res.player_ids[i]) = res.calls[b][k]
  /\ (\A i \in 1..Len(res.player_ids) : ~Numeric(res.player_ids[i])) => Len(res.calls) = 0

C11_Witness ==
  /\ res.pc = "done"
  /\ res.player_ids = <<<<"K", "C">>, <<"K", "C">>>>
  /\ Len(res.calls) = 0
  /\ Len(res.output) = 2

\* C12: resolve raises only when the backend query failed, never because an
\* id is unknown; a numeric id with no backend row yields {name: id,
\* position: "", team: ""} and a non-numeric id yields {name: id, position:
\* "DEF", team: id}, whatever else is in the input.
C12_UnknownIds ==
  /\ res.pc = "raised" => history.failed
  /\ res.pc = "done" =>
       \A i \in 1..Len(res.player_ids) :
          LET pid == res.player_ids[i]
          IN /\ (Numeric(pid) /\ ~Found(backend, pid)) => res.output[i] = NotFoundRecord(pid)
             /\ ~Numeric(pid) => res.output[i] = CodeRecord(pid)

C12_Witness ==
  /\ res.pc = "done"
  /\ res.player_ids = <<<<"9">>, <<"K", "C">>, <<"7">>>>
  /\ ~Found(backend, <<"9">>)
  /\ res.output[1] = NotFoundRecord(<<"9">>)
  /\ res.output[2] = CodeRecord(<<"K", "C">>)
  /\ res.output[3] = [name |-> <<"A">>, position |-> <<"Q", "B">>, team |-> <<"K", "C">>]

\* C13: when the backend lookup of a resolve call fails, the call ends by
\* raising the backend's exception and returns no record (no not-found
\* fallback stands for the ids of the failed lookup), and no cache entry has
\* been written.
C13_BackendFailure ==
  history.failed =>
    /\ res.pc = "raised"
    /\ res.exception \in BackendExceptions
    /\ res.output = <<>>
    /\ player_cache = EmptyCache

C13_Witness ==
  /\ history.failed
  /\ res.pc = "raised"
  /\ res.exception = "postgrest.APIError"
  /\ res.player_ids = <<<<"9">>, <<"K", "C">>>>

(***************************************************************************)
(* ResolutionCache with the shared cache.  The tests import _player_cache  *)
(* and _player_cache_lock from tools/fantasy/info.py and store entries     *)
(* (record, time.monotonic()) under the id string; the resolve that uses   *)
(* them follows the specification's behaviour of resolve (steps 1-5): the  *)
(* cache is consulted under the lock, the missing or stale ids are looked  *)
(* up in batches with the lock released, and the records found are written *)
(* under the lock with a fresh timestamp.                                  *)
(***************************************************************************)
CacheTTL == 2

CacheIds == {<<"7">>, <<"K", "C">>}

CacheInputs == UNION {[1..n -> CacheIds] : n \in 0..MaxCallIds}

Callers == {"c1", "c2"}

\* The backend table before and after the row of player 7 is updated.
TableBefore == {Row(7, <<"A">>, <<"K", "C">>, <<"Q", "B">>)}

TableAfter == {Row(7, <<"Z">>, <<"S", "F">>, <<"Q", "B">>)}

Entry(record, t) == [record |-> record, ts |-> t]

IdleCaller ==
  [pc |-> "idle", player_ids |-> <<>>, lookup |-> EmptyLookup, todo |-> <<>>, calls |-> <<>>,
   fetched |-> EmptyLookup, output |-> <<>>, exception |-> NoException,
   checked_at |-> 0, met |-> EmptyLookup, written |-> EmptyLookup]

LockIgnored(lock) == TRUE

\* with _player_cache_lock: the lock can be taken when no one holds it.
LockFree(lock) == lock = NoLock

UsableAtTTL(entry, t) == t - entry.ts <= CacheTTL

\* An entry is usable only while now - insertedAt < TTL.
Usable(entry, t) == t - entry.ts < CacheTTL

\* Batches no larger than the cap.
RECURSIVE Batches(_, _)
Batches(ids, cap) ==
  IF ids = <<>> THEN <<>>
  ELSE IF Len(ids) <= cap THEN <<ids>>
       ELSE <<SubSeq(ids, 1, cap)>> \o Batches(SubSeq(ids, cap + 1, Len(ids)), cap)

Merge(f, g) == [k \in DOMAIN f \cup DOMAIN g |-> IF k \in DOMAIN g THEN g[k] ELSE f[k]]

\* Steps 1 and 2: empty input, and input without a numeric id, return
\* without the lock; otherwise the caller goes for the lock.
CacheEnter(player_ids) ==
  LET entered == [IdleCaller EXCEPT !.player_ids = player_ids]
  IN IF player_ids = <<>>
     THEN [entered EXCEPT !.pc = "done"]
     ELSE IF SelectSeq(player_ids, isdigit) = <<>>
          THEN [entered EXCEPT !.pc = "done", !.output = ResolveReturn(player_ids, EmptyLookup)]
          ELSE [entered EXCEPT !.pc = "lock_check"]

\* Step 3, under the lock: the usable entries of the distinct numeric ids
\* are taken, the missing or stale ids are split into batches.
CacheCheck(st, cache, t) ==
  LET ids == Deduplicate(SelectSeq(st.player_ids, isdigit))
      cached == {ids[i] : i \in 1..Len(ids)} \cap DOMAIN cache
      hit(pid) == pid \in cached /\ Usable(cache[pid], t)
      lookup == [pid \in {q \in cached : hit(q)} |-> cache[pid].record]
      missing == SelectSeq(ids, LAMBDA pid : ~hit(pid))
      checked == [st EXCEPT !.lookup = lookup, !.checked_at = t,
                            !.met = [pid \in cached |-> [record |-> cache[pid].record, age |-> t - cache[pid].ts]]]
  IN IF missing = <<>>
     THEN [checked EXCEPT !.pc = "done", !.output = ResolveReturn(st.player_ids, lookup)]
     ELSE [checked EXCEPT !.pc = "fetch", !.todo = Batches(missing, BatchCap)]

\* Step 4, one batch: the backend call and the merge of its rows.
CacheFetch(st, rows) ==
  [st EXCEPT !.calls = Append(st.calls, IntList(Head(st.todo))),
             !.todo = Tail(st.todo),
             !.fetched = BuildLookup(rows, st.fetched),
             !.pc = IF Tail(st.todo) = <<>> THEN "lock_store" ELSE "fetch"]

\* A failed batch: the error is propagated, nothing is written.
CacheFetchFail(st, e) ==
  [st EXCEPT !.calls = Append(st.calls, IntList(Head(st.todo))), !.pc = "raised", !.exception = e]

\* Step 4, the write under the lock, and step 5, the output.
CacheWritten(st, t) == [pid \in DOMAIN st.fetched |-> Entry(st.fetched[pid], t)]

CacheStore(st, t) ==
  [st EXCEPT !.pc = "done", !.written = CacheWritten(st, t),
             !.output = ResolveReturn(st.player_ids, Merge(st.lookup, st.fetched))]

(***************************************************************************)
(* Specification SpecCache: two callers resolve concurrently while time    *)
(* passes and the backend row changes.                                     *)
(***************************************************************************)
InitCache ==
  /\ policy = DefaultPolicy
  /\ sync = IdleExecutor
  /\ async = IdleExecutor
  /\ seen = NothingSeen
  /\ backend = TableBefore
  /\ res = IdleResolve
  /\ history = NoHistory
  /\ player_cache = EmptyCache
  /\ player_cache_lock = NoLock
  /\ now = 0
  /\ callers = [c \in Callers |-> IdleCaller]
  /\ qb = NoQuery
  /\ sn = NoName
  /\ tasks = NoTasks

CacheCall(c) ==
  /\ callers[c].pc \in {"idle", "done", "raised"}
  /\ \E ids \in CacheInputs : callers' = [callers EXCEPT ![c] = CacheEnter(ids)]
  /\ UNCHANGED <<policy, sync, async, seen, resolveVars, player_cache, player_cache_lock, now, qb, sn, tasks>>

CacheAcquire(c) ==
  /\ callers[c].pc \in {"lock_check", "lock_store"}
  /\ LockFree(player_cache_lock)
  /\ player_cache_lock' = c
  /\ callers' = [callers EXCEPT ![c].pc = IF @ = "lock_check" THEN "check" ELSE "store"]
  /\ UNCHANGED <<policy, sync, async, seen, resolveVars, player_cache, now, qb, sn, tasks>>

CacheRead(c) ==
  /\ callers[c].pc = "check"
  /\ callers' = [callers EXCEPT ![c] = CacheCheck(@, player_cache, now)]
  /\ player_cache_lock' = NoLock
  /\ UNCHANGED <<policy, sync, async, seen, resolveVars, player_cache, now, qb, sn, tasks>>

CacheLookup(c) ==
  /\ callers[c].pc = "fetch"
  /\ \E rows \in Orders(Matching(backend, IntList(Head(callers[c].todo)))) :
       callers' = [callers EXCEPT ![c] = CacheFetch(@, rows)]
  /\ UNCHANGED <<policy, sync, async, seen, resolveVars, player_cache, player_cache_lock, now, qb, sn, tasks>>

CacheLookupFail(c) ==
  /\ callers[c].pc = "fetch"
  /\ \E e \in BackendExceptions : callers' = [callers EXCEPT ![c] = CacheFetchFail(@, e)]
  /\ UNCHANGED <<policy, sync, async, seen, resolveVars, player_cache, player_cache_lock, now, qb, sn, tasks>>

CacheWrite(c) ==
  /\ callers[c].pc = "store"
  /\ player_cache' = Merge(player_cache, CacheWritten(callers[c], now))
  /\ callers' = [callers EXCEPT ![c] = CacheStore(@, now)]
  /\ player_cache_lock' = NoLock
  /\ UNCHANGED <<policy, sync, async, seen, resolveVars, now, qb, sn, tasks>>

Tick ==
  /\ now < MaxClock
  /\ now' = now + 1
  /\ UNCHANGED <<policy, sync, async, seen, resolveVars, player_cache, player_cache_lock, callers, qb, sn, tasks>>

BackendUpdate ==
  /\ backend = TableBefore
  /\ backend' = TableAfter
  /\ UNCHANGED <<policy, sync, async, seen, res, history, cacheVars, qb, sn, tasks>>

NextCache ==
  \/ \E c \in Callers :
       \/ CacheCall(c)
       \/ CacheAcquire(c)
       \/ CacheRead(c)
       \/ CacheLookup(c)
       \/ CacheLookupFail(c)
       \/ CacheWrite(c)
  \/ Tick
  \/ BackendUpdate

SpecCache == InitCache /\ [][NextCache]_vars

UpperChars ==
  <<"A", "B", "C", "D", "E", "F", "G", "H", "I", "J", "K", "L", "M",
    "N", "O", "P", "Q", "R", "S", "T", "U", "V", "W", "X", "Y", "Z">>

LowerChars ==
  <<"a", "b", "c", "d", "e", "f", "g", "h", "i", "j", "k", "l", "m",
    "n", "o", "p", "q", "r", "s", "t", "u", "v", "w", "x", "y", "z">>

IsUpper(c) == \E i \in 1..Len(UpperChars) : UpperChars[i] = c

IsLower(c) == \E i \in 1..Len(LowerChars) : LowerChars[i] = c

\* \s
IsSpace(c) == c \in {" ", "\t", "\n"}

\* Letters outside ASCII, with their unidecode transliteration.
Accented == {<<"é", "e">>, <<"ñ", "n">>}

IsAccented(c) == \E a \in Accented : a[1] = c

\* \w (re.UNICODE): letters, digits and the underscore.
IsWord(c) == IsUpper(c) \/ IsLower(c) \/ c \in Digits \/ c = "_" \/ IsAccented(c)

LowerChar(c) == IF IsUpper(c) THEN LowerChars[CHOOSE i \in 1..Len(UpperChars) : UpperChars[i] = c] ELSE c

UpperChar(c) == IF IsLower(c) THEN UpperChars[CHOOSE i \in 1..Len(LowerChars) : LowerChars[i] = c] ELSE c

\* str.lower(), str.upper()
lower(s) == [i \in 1..Len(s) |-> LowerChar(s[i])]

upper(s) == [i \in 1..Len(s) |-> UpperChar(s[i])]

\* unidecode(s)
unidecode(s) ==
  [i \in 1..Len(s) |-> IF IsAccented(s[i]) THEN (CHOOSE a \in Accented : a[1] = s[i])[2] ELSE s[i]]

Suffixes == {<<"j", "r">>, <<"s", "r">>, <<"i", "i">>, <<"i", "i", "i">>, <<"i", "v">>, <<"v">>}

\* The end of the run of word characters that starts at i.
WordEnd(s, i) ==
  CHOOSE j \in i..Len(s) :
    /\ \A k \in i..j : IsWord(s[k])
    /\ j = Len(s) \/ ~IsWord(s[j + 1])

\* _suffix_re.sub("", s) from position i: \b(jr|sr|ii|iii|iv|v)\b\.? with
\* re.I matches a whole word that is one of the suffixes, and a period
\* right after it.
RECURSIVE suffix_re_sub(_, _)
suffix_re_sub(s, i) ==
  IF i > Len(s) THEN <<>>
  ELSE IF IsWord(s[i]) /\ (i = 1 \/ ~IsWord(s[i - 1]))
       THEN LET j == WordEnd(s, i)
            IN IF lower(SubSeq(s, i, j)) \in Suffixes
               THEN suffix_re_sub(s, IF j < Len(s) /\ s[j + 1] = "." THEN j + 2 ELSE j + 1)
               ELSE SubSeq(s, i, j) \o suffix_re_sub(s, j + 1)
       ELSE <<s[i]>> \o suffix_re_sub(s, i + 1)

PunctKept(s) == s

\* _punct_re.sub("", s): [^A-Za-z0-9\s-] is removed.
punct_re_sub(s) ==
  SelectSeq(s, LAMBDA c : IsUpper(c) \/ IsLower(c) \/ c \in Digits \/ IsSpace(c) \/ c = "-")

\* _spaces_re.sub(" ", s): every run of whitespace becomes one space.
RECURSIVE spaces_re_sub(_)
spaces_re_sub(s) ==
  IF s = <<>> THEN <<>>
  ELSE IF IsSpace(s[1])
       THEN IF Len(s) > 1 /\ IsSpace(s[2]) THEN spaces_re_sub(Tail(s))
            ELSE <<" ">> \o spaces_re_sub(Tail(s))
       ELSE <<s[1]>> \o spaces_re_sub(Tail(s))

\* str.strip()
RECURSIVE strip(_)
strip(s) ==
  IF s = <<>> THEN <<>>
  ELSE IF IsSpace(s[1]) THEN strip(Tail(s))
       ELSE IF IsSpace(s[Len(s)]) THEN strip(SubSeq(s, 1, Len(s) - 1))
            ELSE s

\* s = name or "": a missing name is the empty string.
NameOrEmpty(name) == IF name = None THEN <<>> ELSE name[1]

\* sanitize_name(name); installed tells whether the optional unidecode
\* package could be imported.
sanitize_name(name, installed) ==
  LET s0 == IF installed THEN unidecode(name) ELSE name
      s1 == suffix_re_sub(s0, 1)
      s2 == punct_re_sub(s1)
      s3 == strip(spaces_re_sub(s2))
  IN lower(s3)

(***************************************************************************)
(* build_player_stats_query (helpers/query_utils.py).  An optional value   *)
(* is None or Some(x); an argument of a call is omitted (<<>>) or passed   *)
(* (<<value>>).  The select string ",".join(columns) is kept as the list   *)
(* of its columns, and the or_ filter as the list of its ilike conditions. *)
(***************************************************************************)
Some(x) == <<x>>

Omitted == <<>>

Passed(x) == <<x>>

\* The parameter's value: the argument passed, or the default.
Bind(arg, default) == IF arg = Omitted THEN default ELSE arg[1]

DefaultLimit == 25

DefaultSortColumn == "player_name"

max_limit == 300

\* columns = base_columns.copy(); metrics = metrics or []; columns.extend(metrics)
Columns(base_columns, metrics) ==
  base_columns \o (IF metrics = None THEN <<>> ELSE metrics[1])

SanitizedNamesRaw(player_names, installed) ==
  IF player_names # None THEN player_names[1] ELSE <<>>

\* sanitized_names = [sanitize_name(name) for name in player_names] if player_names else []
SanitizedNames(player_names, installed) ==
  IF player_names # None /\ player_names[1] # <<>>
  THEN [i \in 1..Len(player_names[1]) |-> sanitize_name(player_names[1][i], installed)]
  ELSE <<>>

\* or_filter: one "{player_name_column}.ilike.%{name}%" per sanitized name.
OrFilter(player_name_column, sanitized_names) ==
  IF sanitized_names # <<>>
  THEN Some([i \in 1..Len(sanitized_names) |->
               [column |-> player_name_column, ilike |-> <<"%">> \o sanitized_names[i] \o <<"%">>]])
  ELSE None

PositionsListWithDefaults(positions, default_positions) ==
  LET positions_list == (IF positions # None THEN positions[1] ELSE <<>>) \o default_positions
  IN IF positions_list # <<>>
     THEN Some([i \in 1..Len(positions_list) |-> upper(positions_list[i])])
     ELSE None

\* positions_list = positions if positions is not None else default_positions
\* positions_list = [p.upper() for p in positions_list] if positions_list else None
PositionsList(positions, default_positions) ==
  LET positions_list == IF positions # None THEN positions[1] ELSE default_positions
  IN IF positions_list # <<>>
     THEN Some([i \in 1..Len(positions_list) |-> upper(positions_list[i])])
     ELSE None

SafeLimitUncapped(limit) ==
  IF limit # None /\ limit[1] # 0 /\ limit[1] > 0 THEN Some(limit[1]) ELSE None

\* safe_limit = None; if limit and int(limit) > 0: safe_limit = min(int(limit), max_limit)
SafeLimit(limit) ==
  IF limit # None /\ limit[1] # 0 /\ limit[1] > 0 THEN Some(Min(limit[1], max_limit)) ELSE None

\* if season_list: query.in_("season", season_list), and the same for weeks.
ListFilter(list) == IF list # None /\ list[1] # <<>> THEN list ELSE None

PositionFilterAlways(position_column, positions_list) ==
  Some([column |-> position_column,
        values |-> IF positions_list = None THEN <<>> ELSE positions_list[1]])

\* if positions_list: query.in_(position_column, positions_list)
PositionFilter(position_column, positions_list) ==
  IF positions_list # None /\ positions_list[1] # <<>>
  THEN Some([column |-> position_column, values |-> positions_list[1]])
  ELSE None

\* if order_by_metric:
Ordered(order_by_metric) == order_by_metric # None /\ order_by_metric[1] # ""

\* query.not_.is_(order_by_metric, "null")
NotNull(order_by_metric) == IF Ordered(order_by_metric) THEN order_by_metric ELSE None

OrderMetricLast(order_by_metric, player_sort_column) ==
  <<[column |-> "season", desc |-> TRUE], [column |-> player_sort_column, desc |-> FALSE]>>
    \o (IF Ordered(order_by_metric) THEN <<[column |-> order_by_metric[1], desc |-> TRUE]>> ELSE <<>>)

\* query.order(order_by_metric, desc=True) when given, then
\* query.order("season", desc=True).order(player_sort_column, desc=False)
OrderClauses(order_by_metric, player_sort_column) ==
  (IF Ordered(order_by_metric) THEN <<[column |-> order_by_metric[1], desc |-> TRUE]>> ELSE <<>>)
    \o <<[column |-> "season", desc |-> TRUE], [column |-> player_sort_column, desc |-> FALSE]>>

\* if safe_limit: query.limit(safe_limit)
LimitClause(safe_limit) == IF safe_limit # None /\ safe_limit[1] # 0 THEN safe_limit ELSE None

\* The query composed by one call, up to query.execute().
BuildRequest(kw, installed) ==
  LET limit == Bind(kw.limit, Some(DefaultLimit))
      positions == Bind(kw.positions, None)
      player_sort_column == Bind(kw.player_sort_column, DefaultSortColumn)
  IN [table |-> kw.table_name,
      select |-> Columns(kw.base_columns, kw.metrics),
      season_in |-> ListFilter(kw.season_list),
      week_in |-> ListFilter(kw.weekly_list),
      position_in |-> PositionFilter(kw.position_column,
                                     PositionsList(positions, kw.default_positions)),
      or_ |-> OrFilter(kw.player_name_column, SanitizedNames(kw.player_names, installed)),
      not_null |-> NotNull(kw.order_by_metric),
      order |-> OrderClauses(kw.order_by_metric, player_sort_column),
      limit |-> LimitClause(SafeLimit(limit))]

BaseColumnsAliased(base_columns, metrics) == Columns(base_columns, metrics)

\* columns = base_columns.copy(): the caller's list is not the one extended.
BaseColumnsAfter(base_columns, metrics) == base_columns

\* The caller's list objects after a call: metrics, player_names, positions
\* and default_positions are only read (lines 89, 94, 98-100 build new lists).
ListsAfter(kw) ==
  [base_columns |-> BaseColumnsAfter(kw.base_columns, kw.metrics),
   default_positions |-> kw.default_positions,
   metrics |-> kw.metrics,
   player_names |-> kw.player_names,
   positions |-> kw.positions]

\* The lists as passed.
ListsOf(kw) ==
  [base_columns |-> kw.base_columns,
   default_positions |-> kw.default_positions,
   metrics |-> kw.metrics,
   player_names |-> kw.player_names,
   positions |-> kw.positions]

\* The call entered with its arguments bound; first keeps the lists passed
\* to the first call and the request it composed.
QueryEnter(st, kw) ==
  [st EXCEPT !.pc = "compose", !.kwargs = Some(kw), !.request = None, !.returned = None,
             !.exception = None, !.failure = None, !.objects = Some(ListsAfter(kw)),
             !.runs = st.runs + 1,
             !.first = IF st.runs = 0 THEN Some([lists |-> ListsOf(kw), request |-> None])
                       ELSE st.first]

\* Lines 108-132: the request composed, about to be executed.
QueryComposed(st, installed) ==
  LET request == Some(BuildRequest(st.kwargs[1], installed))
  IN [st EXCEPT !.pc = "execute", !.request = request,
                !.first = IF st.runs = 1 THEN Some([st.first[1] EXCEPT !.request = request])
                          ELSE st.first]

\* return {return_key: response.data}
QueryReturn(st, rows) ==
  [st EXCEPT !.pc = "returned", !.returned = Some([key |-> st.kwargs[1].return_key, rows |-> rows])]

\* The errors the client raises, with the text str(e) gives.
QueryErrors ==
  {[type |-> "Exception", text |-> "Database connection failed"],
   [type |-> "postgrest.APIError", text |-> "permission denied for view"]}

QueryRaiseBare(st, e) ==
  [st EXCEPT !.pc = "raised", !.failure = Some(e),
             !.exception = Some([type |-> e.type, message |-> <<e.text>>])]

\* except Exception as e: raise Exception(f"Error fetching {return_key}: {str(e)}")
QueryRaise(st, e) ==
  [st EXCEPT !.pc = "raised", !.failure = Some(e),
             !.exception = Some([type |-> "Exception",
                                 message |-> <<"Error fetching ", st.kwargs[1].return_key, ": ",
                                               e.text>>])]

(***************************************************************************)
(* The calls made: the query specifications of the callers (tools/metrics, *)
(* tools/trade), the one of the tests with other defaults, and the filter  *)
(* values callers pass on.                                                 *)
(***************************************************************************)
WR == <<"W", "R">>

TE == <<"T", "E">>

RB == <<"R", "B">>

QB == <<"Q", "B">>

QuerySpecs ==
  {[table_name |-> "vw_advanced_receiving_analytics",
    base_columns |-> <<"season", "player_name", "ff_team", "ff_position">>,
    player_name_column |-> "merge_name", position_column |-> "ff_position",
    default_positions |-> <<WR, TE, RB>>, return_key |-> "advReceivingStats",
    player_sort_column |-> Omitted],
   [table_name |-> "nflreadr_nfl_player_stats",
    base_columns |-> <<"season", "week", "player_display_name", "recent_team", "position">>,
    player_name_column |-> "player_display_name", position_column |-> "position",
    default_positions |-> <<QB, RB, WR, TE>>, return_key |-> "weeklyTrend",
    player_sort_column |-> Passed("player_display_name")],
   [table_name |-> "test_table", base_columns |-> <<"season", "player_name">>,
    player_name_column |-> "merge_name", position_column |-> "ff_position",
    default_positions |-> <<<<"w", "r">>, <<"T", "e">>>>, return_key |-> "testStats",
    player_sort_column |-> Omitted],
   [table_name |-> "test_table", base_columns |-> <<"season", "player_name">>,
    player_name_column |-> "merge_name", position_column |-> "ff_position",
    default_positions |-> <<>>, return_key |-> "testStats",
    player_sort_column |-> Omitted]}

NameArgs ==
  {None, Some(<<>>),
   Some(<<<<"O", "'", "D", "e", "l", "l">>, <<"S", "m", "i", "t", "h", " ", "J", "r", ".">>,
          <<"J", "o", "s", "é">>>>),
   Some(<<<<"J", "r", ".">>>>)}

SeasonArgs == {None, Some(<<2023, 2024>>)}

WeekArgs == {None, Some(<<1, 2>>)}

MetricArgs ==
  {None, Some(<<>>), Some(<<"targets", "receptions">>), Some(<<"season">>),
   Some(<<"targets", "targets">>)}

OrderArgs == {None, Some(""), Some("targets")}

LimitArgs == {Omitted} \cup {Passed(None)} \cup {Passed(Some(n)) : n \in {-1, 0, 300, 500}}

PositionArgs ==
  {Omitted, Passed(None), Passed(Some(<<>>)), Passed(Some(<<<<"q", "b">>, <<"W", "r">>>>))}

FilterValues ==
  [player_names : NameArgs, season_list : SeasonArgs, weekly_list : WeekArgs,
   metrics : MetricArgs, order_by_metric : OrderArgs, limit : LimitArgs,
   positions : PositionArgs]

Kwargs(q, f) ==
  [table_name |-> q.table_name, base_columns |-> q.base_columns,
   player_name_column |-> q.player_name_column, position_column |-> q.position_column,
   default_positions |-> q.default_positions, return_key |-> q.return_key,
   player_sort_column |-> q.player_sort_column,
   player_names |-> f.player_names, season_list |-> f.season_list,
   weekly_list |-> f.weekly_list, metrics |-> f.metrics,
   order_by_metric |-> f.order_by_metric, limit |-> f.limit, positions |-> f.positions]

ResponseData == {<<[season |-> 2024]>>}

(***************************************************************************)
(* Specification SpecQuery: calls of build_player_stats_query with each     *)
(* query specification and each choice of filter values, the call then     *)
(* repeated with the same objects.                                         *)
(***************************************************************************)
InitQuery ==
  /\ policy = DefaultPolicy
  /\ sync = IdleExecutor
  /\ async = IdleExecutor
  /\ seen = NothingSeen
  /\ backend = NoBackend
  /\ res = IdleResolve
  /\ history = NoHistory
  /\ CacheIdle
  /\ qb \in {[NoQuery EXCEPT !.unidecode = installed] : installed \in BOOLEAN}
  /\ sn = NoName
  /\ tasks = NoTasks

QueryCall ==
  /\ qb.pc = "idle"
  /\ \E q \in QuerySpecs, f \in FilterValues : qb' = QueryEnter(qb, Kwargs(q, f))
  /\ UNCHANGED <<policy, sync, async, seen, resolveVars, cacheVars, sn, tasks>>

\* The caller runs the same query again, passing the same objects.
QueryAgain ==
  /\ qb.pc \in {"returned", "raised"}
  /\ qb.runs < MaxRuns
  /\ LET kw == qb.kwargs[1]
         lists == qb.objects[1]
     IN qb' = QueryEnter(qb, [kw EXCEPT !.base_columns = lists.base_columns,
                                        !.default_positions = lists.default_positions,
                                        !.metrics = lists.metrics,
                                        !.player_names = lists.player_names,
                                        !.positions = lists.positions])
  /\ UNCHANGED <<policy, sync, async, seen, resolveVars, cacheVars, sn, tasks>>

QueryCompose ==
  /\ qb.pc = "compose"
  /\ qb' = QueryComposed(qb, qb.unidecode)
  /\ UNCHANGED <<policy, sync, async, seen, resolveVars, cacheVars, sn, tasks>>

\* supabase.table(...).select(...) or a later builder call raises.
QueryComposeFail ==
  /\ qb.pc = "compose"
  /\ \E e \in QueryErrors : qb' = QueryRaise(qb, e)
  /\ UNCHANGED <<policy, sync, async, seen, resolveVars, cacheVars, sn, tasks>>

QueryRespond ==
  /\ qb.pc = "execute"
  /\ \E rows \in ResponseData : qb' = QueryReturn(qb, rows)
  /\ UNCHANGED <<policy, sync, async, seen, resolveVars, cacheVars, sn, tasks>>

QueryFail ==
  /\ qb.pc = "execute"
  /\ \E e \in QueryErrors : qb' = QueryRaise(qb, e)
  /\ UNCHANGED <<policy, sync, async, seen, resolveVars, cacheVars, sn, tasks>>

NextQuery ==
  QueryCall \/ QueryAgain \/ QueryCompose \/ QueryComposeFail \/ QueryRespond \/ QueryFail

SpecQuery == InitQuery /\ [][NextQuery]_vars

(***************************************************************************)
(* Properties of the query builder (SpecQuery).                            *)
(***************************************************************************)
Called == qb.request # None

Elements(seq) == {seq[i] : i \in 1..Len(seq)}

\* The limit asked for: none when the argument is omitted or passed as None.
RequestedLimit == IF qb.kwargs[1].limit = Omitted THEN None ELSE qb.kwargs[1].limit[1]

\* C16 as stated: for every requestedLimit > 0 the request carries the row
\* limit min(requestedLimit, 300); when requestedLimit is absent (argument
\* omitted or None), zero or negative, the request carries no limit clause.
C16_Limit ==
  Called =>
    IF RequestedLimit # None /\ RequestedLimit[1] > 0
    THEN qb.request[1].limit = Some(IF RequestedLimit[1] <= 300 THEN RequestedLimit[1] ELSE 300)
    ELSE qb.request[1].limit = None

\* C16 amended: for every requestedLimit > 0 the request carries the row
\* limit min(requestedLimit, 300); when requestedLimit is passed as None,
\* zero or negative, the request carries no limit clause; when the limit
\* argument is omitted, the default 25 is the requested limit.
C16_LimitAmended ==
  Called =>
    LET limit == IF qb.kwargs[1].limit = Omitted THEN Some(25) ELSE qb.kwargs[1].limit[1]
    IN IF limit # None /\ limit[1] > 0
       THEN qb.request[1].limit = Some(IF limit[1] <= 300 THEN limit[1] ELSE 300)
       ELSE qb.request[1].limit = None

C16_Witness ==
  /\ qb.pc = "returned"
  /\ qb.kwargs[1].limit = Passed(Some(500))
  /\ qb.request[1].limit = Some(300)

\* The position argument: none when omitted or passed as None.
ExplicitPositions ==
  IF qb.kwargs[1].positions = Omitted THEN None ELSE qb.kwargs[1].positions[1]

PositionValues == qb.request[1].position_in[1].values

\* C17 as stated: when a position list is explicitly supplied the position
\* filter uses exactly that list with every code upper-cased and none of the
\* defaults; when the argument is omitted the filter uses the default
\* positions unchanged.
C17_EffectivePositions ==
  (Called /\ qb.request[1].position_in # None) =>
    IF ExplicitPositions # None
    THEN PositionValues = [i \in 1..Len(ExplicitPositions[1]) |-> upper(ExplicitPositions[1][i])]
    ELSE PositionValues = qb.kwargs[1].default_positions

\* C17 amended: when a position list is explicitly supplied the position
\* filter uses exactly that list with every code upper-cased and none of the
\* defaults; when the argument is omitted the filter uses the default
\* positions with every code upper-cased.
C17_EffectivePositionsAmended ==
  (Called /\ qb.request[1].position_in # None) =>
    LET resolved == IF ExplicitPositions # None THEN ExplicitPositions[1]
                    ELSE qb.kwargs[1].default_positions
    IN PositionValues = [i \in 1..Len(resolved) |-> upper(resolved[i])]

C17_Witness ==
  /\ qb.pc = "returned"
  /\ qb.kwargs[1].positions = Passed(Some(<<<<"q", "b">>, <<"W", "r">>>>))
  /\ qb.kwargs[1].default_positions = <<WR, TE, RB>>
  /\ PositionValues = <<QB, WR>>

\* C18: the request carries a position filter if and only if the resolved
\* position list (the explicit list, else the defaults) is non-empty; with
\* an empty resolved list there is no position restriction, never a filter
\* on an empty list of values.
C18_EmptyPositions ==
  Called =>
    LET resolved == IF ExplicitPositions # None THEN ExplicitPositions[1]
                    ELSE qb.kwargs[1].default_positions
    IN /\ qb.request[1].position_in # None <=> resolved # <<>>
       /\ qb.request[1].position_in # None => PositionValues # <<>>

C18_Witness ==
  /\ qb.pc = "returned"
  /\ qb.kwargs[1].positions = Passed(Some(<<>>))
  /\ qb.kwargs[1].default_positions = <<WR, TE, RB>>
  /\ qb.request[1].position_in = None

\* The secondary sort column: the one passed, else player_name.
SecondarySortColumn ==
  IF qb.kwargs[1].player_sort_column = Omitted THEN "player_name"
  ELSE qb.kwargs[1].player_sort_column[1]

\* C19: with an order-by metric the request excludes the rows whose metric
\* is null and its sort keys are (metric descending, season descending,
\* secondary sort column ascending); with none (None or the empty string)
\* there is no null exclusion and the sort keys are exactly (season
\* descending, secondary sort column ascending).
C19_Ordering ==
  Called =>
    LET metric == qb.kwargs[1].order_by_metric
        tiebreak == <<[column |-> "season", desc |-> TRUE],
                      [column |-> SecondarySortColumn, desc |-> FALSE]>>
    IN IF metric # None /\ metric # Some("")
       THEN /\ qb.request[1].not_null = metric
            /\ qb.request[1].order = <<[column |-> metric[1], desc |-> TRUE]>> \o tiebreak
       ELSE /\ qb.request[1].not_null = None
            /\ qb.request[1].order = tiebreak

C19_Witness ==
  /\ qb.pc = "returned"
  /\ qb.kwargs[1].order_by_metric = Some("targets")
  /\ qb.request[1].not_null = Some("targets")
  /\ Len(qb.request[1].order) = 3
  /\ qb.request[1].order[3].column = "player_display_name"

\* C20: for every combination of base columns and requested metrics, the
\* projected column list contains every base column and every requested
\* metric, and no column more than once.
C20_Projection ==
  Called =>
    LET select == qb.request[1].select
        metrics == IF qb.kwargs[1].metrics = None THEN <<>> ELSE qb.kwargs[1].metrics[1]
    IN /\ Elements(qb.kwargs[1].base_columns) \subseteq Elements(select)
       /\ Elements(metrics) \subseteq Elements(select)
       /\ \A i, j \in 1..Len(select) : select[i] = select[j] => i = j


(***************************************************************************)
(* C21: whenever the client raises while the request is composed or        *)
(* executed, the call ends by raising a new exception whose message holds  *)
(* the return key and the text of the triggering error; the triggering     *)
(* exception itself does not reach the caller and nothing is returned.     *)
(***************************************************************************)
C21_ErrorWrapping ==
  qb.failure # None =>
    /\ qb.pc = "raised"
    /\ qb.returned = None
    /\ qb.exception # None
    /\ qb.exception[1].type = "Exception"
    /\ qb.exception[1].message =
         <<"Error fetching ", qb.kwargs[1].return_key, ": ", qb.failure[1].text>>

C21_Witness ==
  /\ qb.pc = "raised"
  /\ qb.request # None
  /\ qb.failure = Some([type |-> "Exception", text |-> "Database connection failed"])

(***************************************************************************)
(* C23: the request carries an or_ filter exactly when player_names is a   *)
(* non-empty list, and then the filter has one condition per supplied      *)
(* name, in order: an ilike on player_name_column with the pattern         *)
(* %sanitize_name(name)%.                                                  *)
(***************************************************************************)
SuppliedNames ==
  IF qb.kwargs[1].player_names = None THEN <<>> ELSE qb.kwargs[1].player_names[1]

C23_NameFilter ==
  Called =>
    /\ qb.request[1].or_ # None <=> SuppliedNames # <<>>
    /\ qb.request[1].or_ # None =>
         /\ Len(qb.request[1].or_[1]) = Len(SuppliedNames)
         /\ \A i \in 1..Len(SuppliedNames) :
              qb.request[1].or_[1][i] =
                [column |-> qb.kwargs[1].player_name_column,
                 ilike |-> <<"%">> \o sanitize_name(SuppliedNames[i], qb.unidecode) \o <<"%">>]

C23_Witness ==
  /\ Called
  /\ Len(SuppliedNames) = 3
  /\ qb.unidecode
  /\ qb.request[1].or_ # None
  /\ qb.request[1].or_[1][3].ilike = <<"%", "j", "o", "s", "e", "%">>

(***************************************************************************)
(* C29: after a call, returned or raised, the caller's base_columns,       *)
(* default_positions, metrics, player_names and positions lists are what   *)
(* was passed to the first call, and a later call with the same objects    *)
(* composes the request the first call composed.                           *)
(***************************************************************************)
C29_ConfigurationUnchanged ==
  qb.runs >= 1 =>
    /\ qb.objects[1] = qb.first[1].lists
    /\ (qb.request # None /\ qb.first[1].request # None) => qb.request = qb.first[1].request

C29_Witness ==
  /\ qb.runs = 2
  /\ qb.pc = "returned"
  /\ qb.first[1].request # None
  /\ qb.kwargs[1].metrics = Some(<<"targets", "receptions">>)
  /\ qb.kwargs[1].player_names # None
  /\ qb.kwargs[1].positions = Passed(Some(<<<<"q", "b">>, <<"W", "r">>>>))

(***************************************************************************)
(* Specification SpecSanitize: sanitize_name applied to a name, missing or *)
(* a string of at most MaxNameLen characters, and then to its own result.  *)
(* The characters: letters that spell the suffix "jr", a period, an        *)
(* apostrophe, a space, a tab, a hyphen, an underscore, a digit and an     *)
(* accented letter.                                                        *)
(***************************************************************************)
NameChars == {"J", "r", ".", "'", " ", "\t", "-", "_", "7", "é"}

NameInputs == {None} \cup {Some(s) : s \in UNION {[1..n -> NameChars] : n \in 0..MaxNameLen}}

InitSanitize ==
  /\ policy = DefaultPolicy
  /\ sync = IdleExecutor
  /\ async = IdleExecutor
  /\ seen = NothingSeen
  /\ backend = NoBackend
  /\ res = IdleResolve
  /\ history = NoHistory
  /\ CacheIdle
  /\ qb = NoQuery
  /\ sn \in {[NoName EXCEPT !.name = name, !.unidecode = installed] :
               name \in NameInputs, installed \in BOOLEAN}
  /\ tasks = NoTasks

\* sanitize_name(name)
SanitizeOnce ==
  /\ sn.pc = "idle"
  /\ sn' = [sn EXCEPT !.pc = "once",
                      !.once = Some(sanitize_name(NameOrEmpty(sn.name), sn.unidecode))]
  /\ UNCHANGED <<policy, sync, async, seen, resolveVars, cacheVars, qb, tasks>>

\* sanitize_name(sanitize_name(name))
SanitizeTwice ==
  /\ sn.pc = "once"
  /\ sn' = [sn EXCEPT !.pc = "twice", !.twice = Some(sanitize_name(sn.once[1], sn.unidecode))]
  /\ UNCHANGED <<policy, sync, async, seen, resolveVars, cacheVars, qb, tasks>>

NextSanitize == SanitizeOnce \/ SanitizeTwice

SpecSanitize == InitSanitize /\ [][NextSanitize]_vars

\* C22: sanitize_name applied to its own result gives that result again, for
\* every name, those included in which removing a period or an apostrophe
\* joins letters into a suffix word.
C22_Idempotent == sn.twice # None => sn.twice = sn.once

\* C30: the result of sanitize_name, for every name (empty or missing
\* included), holds only lowercase ASCII letters, digits, spaces and hyphens,
\* does not begin or end with a space and has no two spaces in a row.
SafeFragment(s) ==
  /\ \A i \in 1..Len(s) : IsLower(s[i]) \/ s[i] \in Digits \/ s[i] \in {" ", "-"}
  /\ s # <<>> => (s[1] # " " /\ s[Len(s)] # " ")
  /\ \A i \in 1..(Len(s) - 1) : ~(s[i] = " " /\ s[i + 1] = " ")

C30_SafeFragment == sn.once # None => SafeFragment(sn.once[1])

C30_Witness ==
  /\ sn.name = Some(<<"J", "\t", " ", "é">>)
  /\ sn.unidecode
  /\ sn.once = Some(<<"j", " ", "e">>)

(***************************************************************************)
(* C24: is_retryable_http_error, applied to an aiohttp error an attempt    *)
(* raises, is true for a connection error and for a client error without   *)
(* a response, and for a response error it is true exactly when the status *)
(* is 429 or >= 500.                                                       *)
(***************************************************************************)
C24_SuspendableClassification ==
  Failed(sync) =>
    LET e == sync.outcome.err
        r == is_retryable_http_error(e)
    IN /\ e.type \in {"aiohttp.ClientConnectionError", "aiohttp.ClientError"} => r
       /\ e.type = "aiohttp.ClientResponseError" =>
            (r <=> (e.status_code = 429 \/ e.status_code >= 500))

(***************************************************************************)
(* C25: in the list a call returns, every numeric id whose integer value   *)
(* is the sleeper_id of a backend row has that row's record (display name, *)
(* position, team), not the not-found fallback.                            *)
(***************************************************************************)
C25_NumericMatch ==
  res.pc = "done" =>
    /\ Len(res.output) = Len(res.player_ids)
    /\ \A i \in 1..Len(res.player_ids) :
         \A row \in backend :
           (isdigit(res.player_ids[i]) /\ int(res.player_ids[i]) = row.sleeper_id) =>
             res.output[i] = RowRecord(row)

(***************************************************************************)
(* C26: the blocking executor waits only between attempts.  Nothing is     *)
(* waited before attempt 1; a wait is pending only after a failed attempt  *)
(* whose error is retryable and which is not the max_attempts-th; after    *)
(* the wait the next attempt is made; an invocation that ended after a     *)
(* attempts has waited exactly a - 1 times and nothing is left to wait.    *)
(***************************************************************************)
C26_WaitsBetweenAttempts ==
  /\ sync.calls = 0 => (sync.sleeps = <<>> /\ sync.pc \in {"idle", "attempt"})
  /\ sync.pc = "sleep" =>
       /\ Failed(sync)
       /\ Retryable(sync.outcome.err)
       /\ sync.calls < policy.max_attempts
       /\ Len(sync.sleeps) = sync.calls - 1
  /\ sync.pc = "attempt" => Len(sync.sleeps) = sync.calls
  /\ Terminal(sync) => (Len(sync.sleeps) = sync.calls - 1 /\ sync.upcoming_sleep = 0)

C26_Witness ==
  /\ sync.pc = "returned"
  /\ policy.max_attempts = 4
  /\ sync.calls = 4
  /\ Len(sync.sleeps) = 3

(***************************************************************************)
(* Specification SpecRetryFair: SpecRetry where an attempt that was begun  *)
(* completes (the wrapped call returns or raises) and a backoff wait that  *)
(* was begun ends (time.sleep returns).                                    *)
(***************************************************************************)
SpecRetryFair == SpecRetry /\ WF_vars(RetryAttempt) /\ WF_vars(RetrySleep)

\* C27: under every policy (max_attempts >= 1) and every sequence of attempt
\* outcomes an invocation that was begun ends, returned or raised, after at
\* most max_attempts attempts; the attempt number is 1 at the first attempt,
\* grows by exactly 1 with each retry and never exceeds max_attempts.
C27_Termination ==
  /\ [](/\ policy.max_attempts >= 1
        /\ sync.calls <= policy.max_attempts
        /\ sync.attempt_number <= policy.max_attempts
        /\ sync.pc # "idle" => sync.attempt_number >= 1
        /\ sync.pc = "attempt" => sync.attempt_number = sync.calls + 1)
  /\ [][/\ sync.pc = "idle" => sync'.attempt_number = 1
        /\ sync.pc = "sleep" => sync'.attempt_number = sync.attempt_number + 1
        /\ sync.pc = "attempt" => sync'.attempt_number = sync.attempt_number]_vars
  /\ (sync.pc # "idle") ~> Terminal(sync)

C27_Witness ==
  /\ sync.pc = "raised"
  /\ policy.max_attempts = 4
  /\ sync.attempt_number = 4
  /\ sync.calls = 4
  /\ seen.retryable_failures = 4

(***************************************************************************)
(* Specification SpecConcurrent: _resolve_player_ids called from several   *)
(* threads at once against a backend table that does not change.  Each     *)
(* call is taken one step at a time: entry, the response of the query,     *)
(* each row put into lookup, the return.                                   *)
(***************************************************************************)
Tasks == {"t1", "t2"}

TaskIds == {<<"7">>, <<"4", "2">>, <<"K", "C">>}

TaskInputs == UNION {[1..n -> TaskIds] : n \in 0..MaxTaskIds}

IdleTask ==
  [pc |-> "idle", player_ids |-> <<>>, numeric_ids |-> <<>>, rows |-> <<>>,
   lookup |-> EmptyLookup, output |-> <<>>, exception |-> NoException]

LookupShared(ts, t, lookup) == [u \in DOMAIN ts |-> [ts[u] EXCEPT !.lookup = lookup]]

\* lookup is a local variable: binding it (lookup = {}) and writing an item
\* (lookup[...] = {...}) touch the dict of the call that does it only.
LookupLocal(ts, t, lookup) == [ts EXCEPT ![t].lookup = lookup]

\* The call up to its return (no id, or no numeric id) or to the query.
TaskEnter(ts, t, player_ids) ==
  LET numeric_ids == SelectSeq(player_ids, isdigit)
      entered == [ts EXCEPT ![t] = [IdleTask EXCEPT !.player_ids = player_ids]]
  IN IF player_ids = <<>>
     THEN [entered EXCEPT ![t].pc = "done"]
     ELSE LET bound == LookupLocal(entered, t, EmptyLookup)
          IN IF numeric_ids = <<>>
             THEN [bound EXCEPT ![t].pc = "done",
                                ![t].output = ResolveReturn(player_ids, bound[t].lookup)]
             ELSE [bound EXCEPT ![t].pc = "query", ![t].numeric_ids = numeric_ids]

\* lookup[str(int(row["sleeper_id"]))] = {...} for the next row.
TaskPutRow(ts, t) ==
  LET row == Head(ts[t].rows)
  IN LookupLocal([ts EXCEPT ![t].rows = Tail(ts[t].rows)], t,
                 Put(ts[t].lookup, str(row.sleeper_id), RowRecord(row)))

InitConcurrent ==
  /\ policy = DefaultPolicy
  /\ sync = IdleExecutor
  /\ async = IdleExecutor
  /\ seen = NothingSeen
  /\ backend \in Backends
  /\ res = IdleResolve
  /\ history = NoHistory
  /\ CacheIdle
  /\ qb = NoQuery
  /\ sn = NoName
  /\ tasks = [t \in Tasks |-> IdleTask]

TaskCall(t) ==
  /\ tasks[t].pc \in {"idle", "done", "raised"}
  /\ \E ids \in TaskInputs : tasks' = TaskEnter(tasks, t, ids)
  /\ UNCHANGED <<policy, sync, async, seen, resolveVars, cacheVars, qb, sn>>

TaskRespond(t) ==
  /\ tasks[t].pc = "query"
  /\ \E rows \in Orders(Matching(backend, IntList(tasks[t].numeric_ids))) :
       tasks' = [tasks EXCEPT ![t].pc = "build", ![t].rows = rows]
  /\ UNCHANGED <<policy, sync, async, seen, resolveVars, cacheVars, qb, sn>>

TaskFail(t) ==
  /\ tasks[t].pc = "query"
  /\ \E e \in BackendExceptions :
       tasks' = [tasks EXCEPT ![t].pc = "raised", ![t].exception = e]
  /\ UNCHANGED <<policy, sync, async, seen, resolveVars, cacheVars, qb, sn>>

TaskPut(t) ==
  /\ tasks[t].pc = "build"
  /\ tasks[t].rows # <<>>
  /\ tasks' = TaskPutRow(tasks, t)
  /\ UNCHANGED <<policy, sync, async, seen, resolveVars, cacheVars, qb, sn>>

TaskReturn(t) ==
  /\ tasks[t].pc = "build"
  /\ tasks[t].rows = <<>>
  /\ tasks' = [tasks EXCEPT ![t].pc = "done",
                            ![t].output = ResolveReturn(tasks[t].player_ids, tasks[t].lookup)]
  /\ UNCHANGED <<policy, sync, async, seen, resolveVars, cacheVars, qb, sn>>

NextConcurrent ==
  \E t \in Tasks : TaskCall(t) \/ TaskRespond(t) \/ TaskFail(t) \/ TaskPut(t) \/ TaskReturn(t)

SpecConcurrent == InitConcurrent /\ [][NextConcurrent]_vars

\* What a call with these ids returns when it runs alone.
Alone(table, player_ids) ==
  LET entered == ResolveEnter(player_ids)
  IN IF entered.pc = "done" THEN {entered.output}
     ELSE {ResolveFinish(entered, rows).output : rows \in Orders(Matching(table, entered.calls[1]))}

\* C28: whatever the interleaving of the calls, a call that returned has
\* returned the list it returns when it runs alone, and the id-to-record map
\* a call reads holds only what that call itself put there from its own
\* response: nothing of another call's map.
C28_NoInterference ==
  \A t \in Tasks :
    /\ tasks[t].pc = "done" => tasks[t].output \in Alone(backend, tasks[t].player_ids)
    /\ tasks[t].pc \in {"query", "build"} =>
         \A k \in DOMAIN tasks[t].lookup :
           \E i \in 1..Len(tasks[t].numeric_ids) : k = str(int(tasks[t].numeric_ids[i]))

C28_Witness ==
  /\ tasks["t1"].pc = "done"
  /\ tasks["t1"].player_ids = <<<<"7">>, <<"4", "2">>>>
  /\ tasks["t1"].output[1].name = <<"A">>
  /\ tasks["t2"].pc = "build"
  /\ tasks["t2"].player_ids = <<<<"4", "2">>, <<"K", "C">>>>
  /\ tasks["t2"].rows # <<>>

====
